---- MODULE Spec2Model ----
(***************************************************************************)
(* Model of the character-sheet window of canonfire: the Sheet base class  *)
(* (src/src/sheets/sheet.js) and CharacterSheetWindow.load                 *)
(* (src/unnamed/part_000), with one open window and one sheet.             *)
(*                                                                         *)
(* JavaScript runs the code between two awaits without interruption, so    *)
(* every action below is one such segment of load, one delivery of a       *)
(* pushed message, or one user event.                                      *)
(***************************************************************************)
EXTENDS Integers, Sequences, FiniteSets, TLC

\* ------------------------------------------------------------------ bounds
\* Number of messages the server pushes on the entity's channel.
MaxPushes == 2

\* Number of "input" events the user causes.
MaxEdits == 2

\* Number of redirects in a row the browser is followed through.
MaxRedirects == 3

\* ------------------------------------------------------------- value space
\* Field keys of an entity record; "name" is the field shown in the title.
Keys == {"name", "hp"}

\* Scalar field values a record or a payload can carry.
Values == {"a", "b"}

\* The JavaScript value undefined: what data[key] yields for a missing key.
Undefined == "UNDEF"

\* Partial update payloads: a key maps to Undefined when the payload lacks it.
Payloads == [Keys -> Values \cup {Undefined}]

\* The payload {} and the object {}: every key reads as undefined.
Empty == [k \in Keys |-> Undefined]

\* Full entity records, as /character/get returns them.
Records == [Keys -> Values]

\* Messages of the push channel: the entity id may be missing (hasId), and
\* so may the changes mapping (hasChanges; changes is then not looked at).
Messages ==
    {m \in [hasId : BOOLEAN, hasChanges : BOOLEAN, changes : Payloads] :
        ~m.hasChanges => m.changes = Empty}

\* Responses of /character/get: a failure carries no character.
Responses ==
    [status : {"success"}, character : Records]
        \cup {[status |-> "error", character |-> Empty]}

\* A message is well formed when it has the entity id and the changes.
FormOf(m) == IF m.hasId /\ m.hasChanges THEN "wellformed" ELSE "malformed"

\* No response yet.
NoResponse == [status |-> "none", character |-> Empty]

\* No element has focus.
NoFocus == "NOFOCUS"

\* The text an unfilled template element or title shows.
Blank == ""

\* ------------------------------------------------------------------- state
VARIABLES
    pc,            \* position of load: the await it is suspended at
    winState,      \* "open", "closing" (unsubscribed, not released), "closed"
    closedAt,      \* value of pc when close() was called, "never" before
    title,         \* window.titleNode.textContent
    content,       \* selectors that resolve to an element of window.content
    elemValue,     \* element.value of the element of each selector
    focus,         \* the selector of the focused element, or NoFocus
    response,      \* the response of /character/get, NoResponse before it
    sheetMade,     \* TRUE once new sheetClass(...) ran
    cachedData,    \* Sheet.cachedData
    inputs,        \* Sheet.inputs: sequence of [key, selector, mode]
    listeners,     \* "input" listeners attached: set of [selector, key, mode]
    returned,      \* return value of the register call of each key
    consoleErrors, \* number of console.error calls of the register functions
    subOwner,      \* who holds the subscription: "none", "window" or "global"
    toasts,        \* number of ErrorToast calls
    pushes,        \* messages pushed by the server so far
    nUpdates,      \* completed calls of Sheet.update so far
    lastPayload,   \* argument of the last Sheet.update call
    written,       \* keys whose element the last Sheet.update call wrote
    titleWritten,  \* TRUE when the last Sheet.update call wrote the title
    lastPush,      \* the last pushed message: its form and what became of it
    server,        \* the entity record the server holds
    changed,       \* keys the server changed since it answered /character/get
    requests,      \* bodies of the /character/update requests sent, in order
    queue,         \* updates handed to AddCharacterUpdate, in order
    nEdits,        \* "input" events the user caused so far
    page,          \* the document the browser shows: "main" or "login"
    bpc,           \* position of the page's script: the await it is in
    token,         \* localStorage "token": "none", or what /status says of it
    href,          \* navigation asked for by window.location.href, or "none"
    hrefBy,        \* the code that asked for it
    did,           \* what the session code of the document did so far
    redirects,     \* redirects followed since the user last acted
    layouts,       \* names of the layouts in localStorage "layouts"
    defaultLayout, \* localStorage "defaultLayout", or NoLayout
    saveOpen,      \* TRUE while the dialog of Layout Save is open
    delDialog      \* the dialog of Layout Delete, and the layouts it read

syncVars == <<server, changed>>

editVars == <<requests, queue, nEdits>>

pageVars == <<page, bpc, token, href, hrefBy, did, redirects, layouts,
              defaultLayout, saveOpen, delDialog>>

vars == <<pc, winState, closedAt, title, content, elemValue, focus,
          response, sheetMade, cachedData, inputs, listeners, returned,
          consoleErrors, subOwner, toasts, pushes, nUpdates, lastPayload,
          written, titleWritten, lastPush, syncVars, editVars, pageVars>>

windowVars == <<pc, winState, closedAt, title, content, elemValue, focus,
                response, sheetMade, cachedData, inputs, listeners, returned,
                consoleErrors, subOwner, toasts, pushes, nUpdates,
                lastPayload, written, titleWritten, lastPush, syncVars,
                editVars>>

sheetVars == <<sheetMade, cachedData, inputs, listeners, returned,
               consoleErrors>>

updateVars == <<nUpdates, lastPayload, written, titleWritten>>

\* ---------------------------------------------------------------- Sheet
\* element.value = v : the DOM converts undefined to the string "undefined".
ToValue(v) == IF v = Undefined THEN "undefined" ELSE v

\* titleNode.textContent = v : the DOM converts undefined to the empty text.
ToText(v) == IF v = Undefined THEN Blank ELSE v

\* The selector the sheet template uses for the element of a field key.
SelectorOf(k) == k

\* The state a Sheet holds while its inputs are registered.
NewSheet ==
    [inputs |-> <<>>, listeners |-> {},
     returned |-> [k \in Keys |-> "uncalled"], consoleErrors |-> 0]

\* registerBatchedInput with the listener body of registerInput: the edit
\* is sent at once instead of being handed to AddCharacterUpdate.
registerBatchedInputImmediate(s, dom, selector, key) ==
    IF selector \notin dom
    THEN [s EXCEPT !.consoleErrors = @ + 1, !.returned[key] = "null"]
    ELSE [s EXCEPT
            !.listeners = @ \cup {[selector |-> selector, key |-> key,
                                   mode |-> "immediate"]},
            !.inputs = Append(@, [key |-> key, selector |-> selector,
                                  mode |-> "batched"]),
            !.returned[key] = "element"]

\* Sheet.registerBatchedInput(selector, key) on the window content dom.
registerBatchedInput(s, dom, selector, key) ==
    IF selector \notin dom
    THEN [s EXCEPT !.consoleErrors = @ + 1, !.returned[key] = "null"]
    ELSE [s EXCEPT
            !.listeners = @ \cup {[selector |-> selector, key |-> key,
                                   mode |-> "batched"]},
            !.inputs = Append(@, [key |-> key, selector |-> selector,
                                  mode |-> "batched"]),
            !.returned[key] = "element"]

\* registerInput without the early return: the missing element is logged,
\* and the binding is recorded all the same.
registerInputNoReturn(s, dom, selector, key) ==
    [s EXCEPT
        !.consoleErrors = IF selector \notin dom THEN @ + 1 ELSE @,
        !.listeners = IF selector \notin dom THEN @
                      ELSE @ \cup {[selector |-> selector, key |-> key,
                                    mode |-> "immediate"]},
        !.inputs = Append(@, [key |-> key, selector |-> selector,
                              mode |-> "immediate"]),
        !.returned[key] = IF selector \notin dom THEN "null" ELSE "element"]

\* Sheet.registerInput(selector, key) on the window content dom.
registerInput(s, dom, selector, key) ==
    IF selector \notin dom
    THEN [s EXCEPT !.consoleErrors = @ + 1, !.returned[key] = "null"]
    ELSE [s EXCEPT
            !.listeners = @ \cup {[selector |-> selector, key |-> key,
                                   mode |-> "immediate"]},
            !.inputs = Append(@, [key |-> key, selector |-> selector,
                                  mode |-> "immediate"]),
            !.returned[key] = "element"]

\* The register calls a sheet subclass makes while it is set up, in order.
RegList ==
    << [key |-> "name", mode |-> "immediate"],
       [key |-> "hp",   mode |-> "batched"] >>

\* The sheet after the register calls regs[i..] were made on dom.
RECURSIVE RegisterFrom(_, _, _, _)
RegisterFrom(s, dom, regs, i) ==
    IF i > Len(regs) THEN s
    ELSE LET r == regs[i]
             t == IF r.mode = "batched"
                  THEN registerBatchedInput(s, dom, SelectorOf(r.key), r.key)
                  ELSE registerInput(s, dom, SelectorOf(r.key), r.key)
         IN  RegisterFrom(t, dom, regs, i + 1)

\* Keys that have an entry in the binding list ins.
BoundKeys(ins) == {ins[i].key : i \in 1..Len(ins)}

\* Sheet.update, line 48: the title is written when the name differs.
TitleChanged(data, cache) == data["name"] # cache["name"]

\* Sheet.update, lines 51-55: the keys whose element is written.
ChangedKeys(data, cache, ins) ==
    {k \in BoundKeys(ins) : data[k] # cache[k]}

\* Sheet.update(data) of a sheet whose cachedData is cache and whose binding
\* list is ins, on elements showing elems. The cache is read, never written.
update(data, cache, ins, elems) ==
    /\ title' = IF TitleChanged(data, cache)
                THEN ToText(data["name"]) ELSE title
    /\ elemValue' = [k \in Keys |->
                       IF k \in ChangedKeys(data, cache, ins)
                       THEN ToValue(data[k]) ELSE elems[k]]
    /\ titleWritten' = TitleChanged(data, cache)
    /\ written' = ChangedKeys(data, cache, ins)
    /\ lastPayload' = data
    /\ nUpdates' = nUpdates + 1

\* onLoad(characterData) of the sheet subclass: the initial load seeds the
\* field cache with the fetched record, or leaves the constructor's {}.
onLoad(data, seed) == IF seed THEN data ELSE Empty

\* ------------------------------------------------- CharacterSheetWindow
\* No layout is the default one.
NoLayout == "NOLAYOUT"

\* No dialog of Layout Delete is open.
NoDialog == [open |-> FALSE, layouts |-> {}]

\* A window of a main page that finished loading, with empty local storage.
PageIdle ==
    /\ page = "main"
    /\ bpc = "ready"
    /\ token = "good"
    /\ href = "none"
    /\ hrefBy = "none"
    /\ did = {}
    /\ redirects = 0
    /\ layouts = {}
    /\ defaultLayout = NoLayout
    /\ saveOpen = FALSE
    /\ delDialog = NoDialog

\* A window that was constructed, and the sheet fields before a sheet is.
WindowInit ==
    /\ pc = "Unloaded"
    /\ winState = "open"
    /\ closedAt = "never"
    /\ title = Blank
    /\ content = {}
    /\ elemValue = [k \in Keys |-> Blank]
    /\ focus = NoFocus
    /\ response = NoResponse
    /\ sheetMade = FALSE
    /\ cachedData = Empty
    /\ inputs = <<>>
    /\ listeners = {}
    /\ returned = [k \in Keys |-> "uncalled"]
    /\ consoleErrors = 0
    /\ subOwner = "none"
    /\ toasts = 0
    /\ pushes = 0
    /\ nUpdates = 0
    /\ lastPayload = Empty
    /\ written = {}
    /\ titleWritten = FALSE
    /\ lastPush = [form |-> "none", outcome |-> "none"]
    /\ changed = {}
    /\ requests = <<>>
    /\ queue = <<>>
    /\ nEdits = 0

Init ==
    /\ WindowInit
    /\ server \in Records
    /\ PageIdle

\* load(id) is called: it suspends in `await super.load()` (line 14).
LoadStart ==
    /\ pc = "Unloaded"
    /\ pc' = "SuperLoad"
    /\ UNCHANGED <<winState, closedAt, title, content, elemValue, focus,
                   response, sheetVars, subOwner, toasts, pushes, updateVars,
                   lastPush>>
    /\ UNCHANGED <<syncVars, editVars, pageVars>>

\* super.load() resolved: line 15 empties the content and line 18 sends
\* /character/get.
LoadRequest ==
    /\ pc = "SuperLoad"
    /\ content' = {}
    /\ focus' = NoFocus
    /\ pc' = "Fetching"
    /\ UNCHANGED <<winState, closedAt, title, elemValue, response, sheetVars,
                   subOwner, toasts, pushes, updateVars, lastPush>>
    /\ UNCHANGED <<syncVars, editVars, pageVars>>

\* LoadFetched without the return of line 21: a failed fetch shows the
\* notification and goes on loading the sheet.
LoadFetchedNoReturn(resp) ==
    /\ pc = "Fetching"
    /\ resp.status = "success" => resp.character = server
    /\ response' = resp
    /\ toasts' = IF resp.status # "success" THEN toasts + 1 ELSE toasts
    /\ title' = ToText(resp.character["name"])
    /\ pc' = "Import"
    /\ UNCHANGED <<winState, closedAt, content, elemValue, focus, sheetVars,
                   subOwner, pushes, updateVars, lastPush>>
    /\ UNCHANGED <<syncVars, editVars, pageVars>>

\* The response resp of /character/get arrived: lines 18-25. A successful
\* response carries the record the server holds.
LoadFetched(resp) ==
    /\ pc = "Fetching"
    /\ resp.status = "success" => resp.character = server
    /\ response' = resp
    /\ IF resp.status # "success"
       THEN /\ toasts' = toasts + 1
            /\ pc' = "Failed"
            /\ UNCHANGED title
       ELSE /\ title' = ToText(resp.character["name"])
            /\ pc' = "Import"
            /\ UNCHANGED toasts
    /\ UNCHANGED <<winState, closedAt, content, elemValue, focus, sheetVars,
                   subOwner, pushes, updateVars, lastPush>>
    /\ UNCHANGED <<syncVars, editVars, pageVars>>

\* The dynamic import of the sheet module resolved (line 28).
LoadImported ==
    /\ pc = "Import"
    /\ pc' = "Css"
    /\ UNCHANGED <<winState, closedAt, title, content, elemValue, focus,
                   response, sheetVars, subOwner, toasts, pushes, updateVars,
                   lastPush>>
    /\ UNCHANGED <<syncVars, editVars, pageVars>>

\* Templates.loadCss resolved (line 29).
LoadCss ==
    /\ pc = "Css"
    /\ pc' = "Html"
    /\ UNCHANGED <<winState, closedAt, title, content, elemValue, focus,
                   response, sheetVars, subOwner, toasts, pushes, updateVars,
                   lastPush>>
    /\ UNCHANGED <<syncVars, editVars, pageVars>>

\* LoadBind without line 34: the sheet is made and bound, and the fetched
\* record is never applied to it.
LoadBindNoUpdate(dom, seed) ==
    /\ pc = "Html"
    /\ content' = content \cup dom
    /\ LET s == RegisterFrom(NewSheet, content \cup dom, RegList, 1)
       IN  /\ sheetMade' = TRUE
           /\ cachedData' = onLoad(response.character, seed)
           /\ inputs' = s.inputs
           /\ listeners' = s.listeners
           /\ returned' = s.returned
           /\ consoleErrors' = s.consoleErrors
    /\ pc' = "Bound"
    /\ UNCHANGED <<winState, closedAt, title, elemValue, focus, response,
                   subOwner, toasts, pushes, updateVars, lastPush>>
    /\ UNCHANGED <<syncVars, editVars, pageVars>>

\* Templates.loadHtml resolved with a template holding the elements dom:
\* lines 30-37 append it, make the sheet, run onLoad, addListeners and the
\* initial update, and call this.subscribe.
LoadBind(dom, seed) ==
    /\ pc = "Html"
    /\ content' = content \cup dom
    /\ LET s == RegisterFrom(NewSheet, content \cup dom, RegList, 1)
           cache == onLoad(response.character, seed)
       IN  /\ sheetMade' = TRUE
           /\ cachedData' = cache
           /\ inputs' = s.inputs
           /\ listeners' = s.listeners
           /\ returned' = s.returned
           /\ consoleErrors' = s.consoleErrors
           /\ update(response.character, cache, s.inputs,
                     [k \in Keys |-> Blank])
    /\ pc' = "Bound"
    /\ UNCHANGED <<winState, closedAt, focus, response, subOwner, toasts,
                   pushes, lastPush>>
    /\ UNCHANGED <<syncVars, editVars, pageVars>>

\* LoadSubscribed calling the module-level Subscribe the file imports
\* instead of this.subscribe: the window does not hold the subscription.
LoadSubscribedGlobal ==
    /\ pc = "Bound"
    /\ subOwner' = "global"
    /\ pc' = "Subscribed"
    /\ UNCHANGED <<winState, closedAt, title, content, elemValue, focus,
                   response, sheetVars, toasts, pushes, updateVars, lastPush>>
    /\ UNCHANGED <<syncVars, editVars, pageVars>>

\* this.subscribe resolved (lines 37-39): the window holds a subscription
\* whose handler applies the pushed changes to the sheet.
LoadSubscribed ==
    /\ pc = "Bound"
    /\ subOwner' = "window"
    /\ pc' = "Subscribed"
    /\ UNCHANGED <<winState, closedAt, title, content, elemValue, focus,
                   response, sheetVars, toasts, pushes, updateVars, lastPush>>
    /\ UNCHANGED <<syncVars, editVars, pageVars>>

\* The keys of the server's record rec that the change reported by a well
\* formed msg alters; a malformed message reports no change.
Differing(rec, msg) ==
    {k \in Keys : /\ FormOf(msg) = "wellformed"
                  /\ msg.changes[k] \notin {Undefined, rec[k]}}

\* The server's record rec after the change that msg reports.
Merge(rec, msg) ==
    [k \in Keys |-> IF k \in Differing(rec, msg) THEN msg.changes[k]
                    ELSE rec[k]]

\* The server pushes msg on the entity's channel. Without a subscription
\* the message is lost; with one the handler of lines 37-39 runs:
\* sheet.update(updateData.changes), which throws on data.name when the
\* message has no changes mapping.
DeliverPush(msg) ==
    /\ pushes < MaxPushes
    /\ pushes' = pushes + 1
    /\ IF subOwner = "none"
       THEN /\ lastPush' = [form |-> FormOf(msg), outcome |-> "lost"]
            /\ UNCHANGED <<title, elemValue, updateVars>>
       ELSE IF ~msg.hasChanges
            THEN /\ lastPush' = [form |-> FormOf(msg), outcome |-> "raised"]
                 /\ UNCHANGED <<title, elemValue, updateVars>>
            ELSE /\ update(msg.changes, cachedData, inputs, elemValue)
                 /\ lastPush' = [form |-> FormOf(msg), outcome |-> "applied"]
    /\ UNCHANGED <<pc, winState, closedAt, content, focus, response,
                   sheetVars, subOwner, toasts>>
    /\ server' = Merge(server, msg)
    /\ changed' = IF response.status = "success"
                  THEN changed \cup Differing(server, msg) ELSE changed
    /\ UNCHANGED <<editVars, pageVars>>

\* The user moves the focus to the element of selector k, or away (NoFocus).
Focus(k) ==
    /\ winState = "open"
    /\ k \in content \cup {NoFocus}
    /\ k # focus
    /\ focus' = k
    /\ UNCHANGED <<pc, winState, closedAt, title, content, elemValue,
                   response, sheetVars, subOwner, toasts, pushes, updateVars,
                   lastPush>>
    /\ UNCHANGED <<syncVars, editVars, pageVars>>

\* The id of the entity the sheet shows (this.id).
SheetId == "c1"

\* The update objects the listeners ls build for the element value v
\* (lines 20-21 and 36-37), in some order.
RECURSIVE UpdatesOf(_, _)
UpdatesOf(ls, v) ==
    IF ls = {} THEN <<>>
    ELSE LET l == CHOOSE x \in ls : TRUE
         IN  <<[id |-> SheetId, key |-> l.key, value |-> v]>>
                 \o UpdatesOf(ls \ {l}, v)

\* The user types v into the focused element: its "input" listeners run.
\* A listener of registerInput sends /character/update (line 38), one of
\* registerBatchedInput calls AddCharacterUpdate (line 22).
UserInput(v) ==
    /\ focus # NoFocus
    /\ nEdits < MaxEdits
    /\ nEdits' = nEdits + 1
    /\ elemValue' = [elemValue EXCEPT ![focus] = v]
    /\ requests' = requests \o UpdatesOf({l \in listeners :
                        l.selector = focus /\ l.mode = "immediate"}, v)
    /\ queue' = queue \o UpdatesOf({l \in listeners :
                        l.selector = focus /\ l.mode = "batched"}, v)
    /\ UNCHANGED <<pc, winState, closedAt, title, content, focus, response,
                   sheetVars, subOwner, toasts, pushes, updateVars, lastPush,
                   syncVars, pageVars>>

\* close(), first half: the subscriptions the window holds are cancelled.
CloseUnsubscribe ==
    /\ winState = "open"
    /\ winState' = "closing"
    /\ closedAt' = pc
    /\ subOwner' = IF subOwner = "window" THEN "none" ELSE subOwner
    /\ UNCHANGED <<pc, title, content, elemValue, focus, response,
                   sheetVars, toasts, pushes, updateVars, lastPush>>
    /\ UNCHANGED <<syncVars, editVars, pageVars>>

\* close(), second half: the window's DOM region is taken out of the page
\* and its bindings are released; the detached elements lose the focus.
CloseRelease ==
    /\ winState = "closing"
    /\ winState' = "closed"
    /\ focus' = NoFocus
    /\ UNCHANGED <<pc, closedAt, title, content, elemValue, response, sheetVars,
                   subOwner, toasts, pushes, updateVars, lastPush>>
    /\ UNCHANGED <<syncVars, editVars, pageVars>>

Next ==
    \/ LoadStart
    \/ LoadRequest
    \/ \E resp \in Responses : LoadFetched(resp)
    \/ LoadImported
    \/ LoadCss
    \/ \E dom \in SUBSET Keys, seed \in BOOLEAN : LoadBind(dom, seed)
    \/ LoadSubscribed
    \/ \E msg \in Messages : DeliverPush(msg)
    \/ \E k \in Keys \cup {NoFocus} : Focus(k)
    \/ CloseUnsubscribe
    \/ CloseRelease

Spec == Init /\ [][Next]_vars

\* The window with a user who edits the sheet, and no pushed message.
EditNext ==
    \/ LoadStart
    \/ LoadRequest
    \/ \E resp \in Responses : LoadFetched(resp)
    \/ LoadImported
    \/ LoadCss
    \/ \E dom \in SUBSET Keys, seed \in BOOLEAN : LoadBind(dom, seed)
    \/ LoadSubscribed
    \/ \E k \in Keys \cup {NoFocus} : Focus(k)
    \/ \E v \in Values : UserInput(v)
    \/ CloseUnsubscribe
    \/ CloseRelease

SpecEdit == Init /\ [][EditNext]_vars

TypeOK ==
    /\ pc \in {"Unloaded", "SuperLoad", "Fetching", "Failed", "Import",
               "Css", "Html", "Bound", "Subscribed"}
    /\ winState \in {"open", "closing", "closed"}
    /\ title \in Values \cup {Blank}
    /\ content \subseteq Keys
    /\ elemValue \in [Keys -> Values \cup {Blank, "undefined"}]
    /\ focus \in content \cup {NoFocus}
    /\ response \in Responses \cup {NoResponse}
    /\ cachedData \in Payloads
    /\ subOwner \in {"none", "window", "global"}
    /\ pushes \in 0..MaxPushes
    /\ nUpdates \in 0..(MaxPushes + 1)
    /\ written \subseteq Keys

\* ------------------------------------------------------ main.ts, login.js
\* Names a layout can be saved under.
LayoutNames == {"x", "y", "z"}

\* The verdict of /status for the stored token.
StatusOf(t) == IF t = "good" THEN "success" ELSE "error"

\* The browser opens the main page or the login page; local storage holds a
\* token or none, and no layout.
PageInit ==
    /\ WindowInit
    /\ server = [k \in Keys |-> "a"]
    /\ page \in {"main", "login"}
    /\ bpc = IF page = "main" THEN "load" ELSE "lready"
    /\ token \in {"none", "good", "bad"}
    /\ href = "none"
    /\ hrefBy = "none"
    /\ did = {}
    /\ redirects = 0
    /\ layouts = {}
    /\ defaultLayout = NoLayout
    /\ saveOpen = FALSE
    /\ delDialog = NoDialog

\* The load event of the main page (lines 31-33) runs OnLoad up to its
\* first await (lines 70-78). Without a token OnLoad asks for /login and
\* returns, and the listener goes on to call Main, which calls WsConnect
\* (line 107).
MainLoad ==
    /\ page = "main"
    /\ bpc = "load"
    /\ IF token = "none"
       THEN /\ href' = "/login"
            /\ hrefBy' = "OnLoad"
            /\ did' = did \cup {"ws"}
            /\ bpc' = "ws"
       ELSE /\ bpc' = "status"
            /\ UNCHANGED <<href, hrefBy, did>>
    /\ UNCHANGED <<page, token, redirects, layouts, defaultLayout, saveOpen,
                   delDialog, windowVars>>

\* /status answered (lines 78-94): a status other than "success" asks for
\* /login, and OnLoad goes on: /re-auth now and on a timer, then the user
\* record of the response, which a failure may lack (hasUser): reading it
\* then throws, and the listener never calls Main.
OnLoadStatus(hasUser) ==
    /\ page = "main"
    /\ bpc = "status"
    /\ IF StatusOf(token) # "success"
       THEN href' = "/login" /\ hrefBy' = "OnLoad"
       ELSE UNCHANGED <<href, hrefBy>>
    /\ IF StatusOf(token) = "success" \/ hasUser
       THEN /\ did' = did \cup {"reauth", "reauthTimer", "user"}
            /\ bpc' = "rulesets"
       ELSE /\ did' = did \cup {"reauth", "reauthTimer"}
            /\ bpc' = "threw"
    /\ UNCHANGED <<page, token, redirects, layouts, defaultLayout, saveOpen,
                   delDialog, windowVars>>

\* The rulesets are set up (lines 93-102): OnLoad returns and the listener
\* calls Main, which calls WsConnect (line 107).
OnLoadDone ==
    /\ page = "main"
    /\ bpc = "rulesets"
    /\ did' = did \cup {"ws"}
    /\ bpc' = "ws"
    /\ UNCHANGED <<page, token, href, hrefBy, redirects, layouts,
                   defaultLayout, saveOpen, delDialog, windowVars>>

\* WsConnect settled (lines 107-113): connected, Main starts the heartbeat
\* and update timers and waits for the libraries; otherwise Main throws.
MainConnected(ok) ==
    /\ page = "main"
    /\ bpc = "ws"
    /\ IF ok
       THEN /\ did' = did \cup {"heartbeatTimer", "updateTimer"}
            /\ bpc' = "init"
       ELSE /\ bpc' = "threw"
            /\ UNCHANGED did
    /\ UNCHANGED <<page, token, href, hrefBy, redirects, layouts,
                   defaultLayout, saveOpen, delDialog, windowVars>>

\* The libraries are set up (lines 113-264): Main sets the context menu
\* and opens the first window; line 249 reads Session.user, and throws when
\* OnLoad never stored one.
MainInit ==
    /\ page = "main"
    /\ bpc = "init"
    /\ IF "user" \in did
       THEN /\ did' = did \cup {"menu", "window"}
            /\ bpc' = "window"
       ELSE /\ did' = did \cup {"menu"}
            /\ bpc' = "threw"
    /\ UNCHANGED <<page, token, href, hrefBy, redirects, layouts,
                   defaultLayout, saveOpen, delDialog, windowVars>>

\* The first window finished loading (lines 251, 257, 264): Main returns.
MainReady ==
    /\ page = "main"
    /\ bpc = "window"
    /\ bpc' = "ready"
    /\ UNCHANGED <<page, token, href, hrefBy, did, redirects, layouts,
                   defaultLayout, saveOpen, delDialog, windowVars>>

\* The context menu of the main page is set (line 247).
MenuUp == page = "main" /\ ("menu" \in did \/ bpc = "ready")

\* Settings, Log Out (lines 37-42).
LogOut ==
    /\ MenuUp
    /\ token' = "none"
    /\ href' = "/login"
    /\ hrefBy' = "LogOut"
    /\ UNCHANGED <<page, bpc, did, redirects, layouts, defaultLayout,
                   saveOpen, delDialog, windowVars>>

\* Layout, Save is chosen: its dialog opens (line 160).
LayoutSaveOpen ==
    /\ MenuUp
    /\ ~saveOpen
    /\ saveOpen' = TRUE
    /\ UNCHANGED <<page, bpc, token, href, hrefBy, did, redirects, layouts,
                   defaultLayout, delDialog, windowVars>>

\* The dialog of Layout Save is answered (lines 160-186): cancelled or
\* without a name (name = "") nothing is stored; otherwise the layout is
\* stored under the name, which becomes the default when asked (isDefault).
LayoutSave(name, isDefault) ==
    /\ page = "main"
    /\ saveOpen
    /\ saveOpen' = FALSE
    /\ IF name = ""
       THEN UNCHANGED <<layouts, defaultLayout>>
       ELSE /\ defaultLayout' = IF isDefault THEN name ELSE defaultLayout
            /\ layouts' = layouts \cup {name}
    /\ UNCHANGED <<page, bpc, token, href, hrefBy, did, redirects,
                   delDialog, windowVars>>

\* Layout, Delete is chosen (lines 207-212): the stored layouts are read,
\* and when there are some the dialog opens on them.
LayoutDeleteOpen ==
    /\ MenuUp
    /\ ~delDialog.open
    /\ layouts # {}
    /\ delDialog' = [open |-> TRUE, layouts |-> layouts]
    /\ UNCHANGED <<page, bpc, token, href, hrefBy, did, redirects, layouts,
                   defaultLayout, saveOpen, windowVars>>

\* The dialog of Layout Delete is answered (lines 212-221): cancelled
\* (name = "") nothing is stored; otherwise the name is taken out of the
\* layouts the handler read before the dialog, the default is removed when
\* it is the name, and those layouts are stored.
LayoutDelete(name) ==
    /\ page = "main"
    /\ delDialog.open
    /\ name \in delDialog.layouts \cup {""}
    /\ delDialog' = NoDialog
    /\ IF name = ""
       THEN UNCHANGED <<layouts, defaultLayout>>
       ELSE /\ layouts' = delDialog.layouts \ {name}
            /\ defaultLayout' = IF defaultLayout = name THEN NoLayout
                                ELSE defaultLayout
    /\ UNCHANGED <<page, bpc, token, href, hrefBy, did, redirects,
                   saveOpen, windowVars>>

\* LoginStatus redirecting whenever a token is stored, whatever /status
\* says of it.
LoginStatusAlways ==
    /\ page = "login"
    /\ bpc = "lstatus"
    /\ href' = "/"
    /\ hrefBy' = "loginReady"
    /\ bpc' = "form"
    /\ UNCHANGED <<page, token, did, redirects, layouts, defaultLayout,
                   saveOpen, delDialog, windowVars>>

\* The ready handler of the login page up to its await (lines 4-11): with
\* a token it asks /status, without one it sets up the form (lines 20-34).
LoginReady ==
    /\ page = "login"
    /\ bpc = "lready"
    /\ bpc' = IF token # "none" THEN "lstatus" ELSE "form"
    /\ UNCHANGED <<page, token, href, hrefBy, did, redirects, layouts,
                   defaultLayout, saveOpen, delDialog, windowVars>>

\* /status answered on the login page (lines 11-34): "success" asks for /,
\* and the form is set up either way.
LoginStatus ==
    /\ page = "login"
    /\ bpc = "lstatus"
    /\ IF StatusOf(token) = "success"
       THEN href' = "/" /\ hrefBy' = "loginReady"
       ELSE UNCHANGED <<href, hrefBy>>
    /\ bpc' = "form"
    /\ UNCHANGED <<page, token, did, redirects, layouts, defaultLayout,
                   saveOpen, delDialog, windowVars>>

\* The user sends the login form and LoginRequest answers (lines 22-33):
\* "success" (ok) asks for /; the request may have stored the new token.
LoginClick(ok, stored) ==
    /\ page = "login"
    /\ bpc = "form"
    /\ IF ok
       THEN /\ href' = "/"
            /\ hrefBy' = "click"
            /\ token' = IF stored THEN "good" ELSE token
       ELSE UNCHANGED <<href, hrefBy, token>>
    /\ UNCHANGED <<page, bpc, did, redirects, layouts, defaultLayout,
                   saveOpen, delDialog, windowVars>>

\* The redirects that a load handler asked for, not the user.
Automatic == {"OnLoad", "loginReady"}

\* The browser follows window.location.href: the document and its script
\* are dropped and the page asked for is loaded; local storage stays.
Navigate ==
    /\ href # "none"
    /\ hrefBy \in Automatic => redirects < MaxRedirects
    /\ page' = IF href = "/login" THEN "login" ELSE "main"
    /\ bpc' = IF href = "/login" THEN "lready" ELSE "load"
    /\ redirects' = IF hrefBy \in Automatic THEN redirects + 1 ELSE 0
    /\ href' = "none"
    /\ hrefBy' = "none"
    /\ did' = {}
    /\ saveOpen' = FALSE
    /\ delDialog' = NoDialog
    /\ UNCHANGED <<token, layouts, defaultLayout, windowVars>>

PageNext ==
    \/ MainLoad
    \/ \E hasUser \in BOOLEAN : OnLoadStatus(hasUser)
    \/ OnLoadDone
    \/ \E ok \in BOOLEAN : MainConnected(ok)
    \/ MainInit
    \/ MainReady
    \/ LogOut
    \/ LayoutSaveOpen
    \/ \E name \in LayoutNames \cup {""}, isDefault \in BOOLEAN :
          LayoutSave(name, isDefault)
    \/ LayoutDeleteOpen
    \/ \E name \in LayoutNames \cup {""} : LayoutDelete(name)
    \/ LoginReady
    \/ LoginStatus
    \/ \E ok \in BOOLEAN, stored \in BOOLEAN : LoginClick(ok, stored)
    \/ Navigate

SpecPage == PageInit /\ [][PageNext]_vars

\* A main page that finished loading, with empty local storage, and a user
\* who saves and deletes layouts.
LayoutInit ==
    /\ WindowInit
    /\ server = [k \in Keys |-> "a"]
    /\ PageIdle

LayoutNext ==
    \/ LayoutSaveOpen
    \/ \E name \in LayoutNames \cup {""}, isDefault \in BOOLEAN :
          LayoutSave(name, isDefault)
    \/ LayoutDeleteOpen
    \/ \E name \in LayoutNames \cup {""} : LayoutDelete(name)

SpecLayout == LayoutInit /\ [][LayoutNext]_vars

\* ---------------------------------------------------------------- claims
\* A step in which a call of Sheet.update completed.
UpdateRan == nUpdates' = nUpdates + 1

\* The positions of load before Subscribed at which it is suspended.
Suspended == {"SuperLoad", "Fetching", "Import", "Css", "Html", "Bound"}

\* C1: when a bound element has the focus while Sheet.update runs, the
\* value it shows after the call is the value it showed before.
C1_FocusGuard ==
    [][(UpdateRan /\ focus # NoFocus /\ focus \in BoundKeys(inputs))
          => elemValue'[focus] = elemValue[focus]]_vars

\* C2: at the end of every reconciliation pass, the cache holds for every
\* bound key the value its element shows.
C2_CacheAgreesWithDisplay ==
    [][UpdateRan
          => \A k \in BoundKeys(inputs') : cachedData'[k] = elemValue'[k]]_vars

\* C3: a call of Sheet.update with the payload of the call before it writes
\* no bound element and does not write the title.
C3_Idempotent ==
    [][(UpdateRan /\ nUpdates >= 1 /\ lastPayload' = lastPayload)
          => (written' = {} /\ ~titleWritten')]_vars

\* C4: the bound keys whose element Sheet.update(P) writes are exactly the
\* bound keys present in P whose value in P differs from the cached one.
C4_ExactChangeDetection ==
    [][UpdateRan
          => written' = {k \in BoundKeys(inputs') :
                            /\ lastPayload'[k] # Undefined
                            /\ lastPayload'[k] # cachedData'[k]}]_vars

\* C5: once the window was closed while load was suspended before
\* Subscribed, no step writes the title or the content, creates a
\* subscription or runs Sheet.update.
C5_CloseDuringLoad ==
    [][(winState = "closed" /\ closedAt \in Suspended)
          => /\ title' = title
             /\ content' = content
             /\ subOwner' = subOwner
             /\ nUpdates' = nUpdates
             /\ pushes' # pushes => lastPush'.outcome = "lost"]_vars

\* C6: when /character/get did not answer "success", load has stopped, the
\* error notification was shown exactly once, no sheet was instantiated or
\* bound, and there is no subscription.
C6_FetchFailure ==
    response.status = "error"
        => /\ pc = "Failed"
           /\ toasts = 1
           /\ ~sheetMade
           /\ inputs = <<>>
           /\ listeners = {}
           /\ subOwner = "none"
           /\ nUpdates = 0

\* C6 witness: the fetch failed, and messages were pushed and the window
\* was closed afterwards.
C6_Witness ==
    /\ response.status = "error"
    /\ toasts = 1
    /\ pushes > 0
    /\ winState = "closed"

\* C7: the handler raises for no delivered message, and a malformed message
\* leaves the cache, the title and every bound element as they were.
C7_HandlerNeverThrows ==
    [][(pushes' # pushes /\ lastPush'.outcome # "lost")
          => /\ lastPush'.outcome # "raised"
             /\ lastPush'.form = "malformed"
                   => /\ cachedData' = cachedData
                      /\ title' = title
                      /\ elemValue' = elemValue
                      /\ nUpdates' = nUpdates]_vars

C9_MissingSelector ==
    sheetMade =>
        /\ pc \in {"Bound", "Subscribed"}
        /\ \A i \in 1..Len(RegList) :
              LET k == RegList[i].key
                  sel == SelectorOf(k)
              IN  IF sel \notin content
                  THEN /\ returned[k] = "null"
                       /\ k \notin BoundKeys(inputs)
                       /\ \A l \in listeners : l.selector # sel
                       /\ k \notin written
                       /\ elemValue[k] = Blank
                  ELSE /\ returned[k] = "element"
                       /\ Cardinality({j \in 1..Len(inputs) :
                                         inputs[j].key = k}) = 1
                       /\ [selector |-> sel, key |-> k,
                           mode |-> RegList[i].mode] \in listeners
        /\ consoleErrors =
              Cardinality({i \in 1..Len(RegList) :
                             SelectorOf(RegList[i].key) \notin content})

\* C9 witness: the first selector resolved to no element, the one after it
\* is bound, and a pushed payload carrying both keys was applied.
C9_Witness ==
    /\ sheetMade
    /\ returned["name"] = "null"
    /\ returned["hp"] = "element"
    /\ lastPush.outcome = "applied"
    /\ lastPayload["name"] # Undefined
    /\ written = {"hp"}

\* C10: Sheet.update(P) writes the title exactly when P has a name that
\* differs from the cached name, the title is then P.name, and a payload
\* without a name leaves the title as it was.
C10_TitleReconciliation ==
    [][UpdateRan
          => /\ titleWritten' <=> /\ lastPayload'["name"] # Undefined
                                  /\ lastPayload'["name"] # cachedData'["name"]
             /\ titleWritten' => title' = lastPayload'["name"]
             /\ lastPayload'["name"] = Undefined => title' = title]_vars

\* The register call the sheet makes for the element of selector sel.
RegOf(sel) == CHOOSE r \in {RegList[i] : i \in 1..Len(RegList)} :
                  SelectorOf(r.key) = sel

\* C11: an "input" event on an element bound with registerInput sends
\* exactly one /character/update request {id, key: value} with the value
\* the element shows and queues nothing; one on an element bound with
\* registerBatchedInput queues exactly one such update and sends nothing.
C11_EditPropagation ==
    [][(nEdits' # nEdits /\ focus \in BoundKeys(inputs))
          => LET u == [id |-> SheetId, key |-> RegOf(focus).key,
                       value |-> elemValue'[focus]]
             IN  IF RegOf(focus).mode = "immediate"
                 THEN requests' = Append(requests, u) /\ queue' = queue
                 ELSE queue' = Append(queue, u) /\ requests' = requests]_vars

\* C11 witness: the user edited an element of each mode; one request was
\* sent and one update was queued, each with the value typed.
C11_Witness ==
    /\ nEdits = 2
    /\ Len(requests) = 1
    /\ Len(queue) = 1
    /\ requests[1].key = "name"
    /\ queue[1].key = "hp"
    /\ requests[1].value # queue[1].value

\* The lifecycle state of the sheet at each position of load.
Stage(p) ==
    CASE p \in {"Unloaded", "SuperLoad"} -> "Unloaded"
      [] p \in {"Fetching", "Import", "Css", "Html"} -> "Fetching"
      [] p = "Bound" -> "Bound"
      [] p = "Subscribed" -> "Subscribed"
      [] p = "Failed" -> "Failed"

\* The place of a lifecycle state in Unloaded, Fetching, Bound, Subscribed.
Rank(st) ==
    CASE st = "Unloaded" -> 0
      [] st = "Fetching" -> 1
      [] st = "Bound" -> 2
      [] st = "Subscribed" -> 3
      [] st = "Failed" -> 4

\* C12: load moves the sheet from each lifecycle state to the next one only
\* (or from Fetching to the failure state); a Bound or Subscribed sheet was
\* instantiated and shown the fetched record by the initial update; the
\* subscription exists only from Subscribed on, and every pushed message
\* that reaches the handler finds that sheet.
C12_LifecycleOrder ==
    /\ [][\/ Rank(Stage(pc')) = Rank(Stage(pc))
          \/ Rank(Stage(pc')) = Rank(Stage(pc)) + 1 /\ pc' # "Failed"
          \/ Stage(pc) = "Fetching" /\ pc' = "Failed"]_vars
    /\ [](Stage(pc) \in {"Bound", "Subscribed"}
            => /\ sheetMade
               /\ nUpdates >= 1
               /\ response.status = "success"
               /\ \A k \in Keys : returned[k] # "uncalled")
    /\ [](subOwner # "none" => pc = "Subscribed")
    /\ [][(pushes' # pushes /\ lastPush'.outcome # "lost")
             => pc = "Subscribed" /\ sheetMade /\ nUpdates >= 1]_vars

\* C12 witness: load reached Subscribed and a pushed message was applied
\* after the initial update.
C12_Witness ==
    /\ pc = "Subscribed"
    /\ subOwner = "window"
    /\ lastPush.outcome = "applied"
    /\ nUpdates = 2

\* C13: once load has completed, every bound field the server changed
\* after it answered /character/get shows the server's value (the window
\* is open and the user typed nothing).
C13_NoLostUpdate ==
    (pc = "Subscribed" /\ winState = "open" /\ nEdits = 0)
        => \A k \in changed \cap BoundKeys(inputs) : elemValue[k] = server[k]

\* The session actions of the main page that C14 names.
SessionActs == {"reauth", "user", "ws", "heartbeatTimer", "updateTimer",
                "window"}

\* C14: from the step in which OnLoad asks for /login on, the main page
\* performs no session action: no /re-auth, no read of the user record, no
\* WebSocket connect, no heartbeat or update timer, no window.
C14_RedirectStopsBootstrap ==
    [][(page = "main" /\ page' = "main" /\ hrefBy' = "OnLoad")
          => did' \cap SessionActs = did \cap SessionActs]_vars

\* C15: whenever defaultLayout is set, it names a stored layout.
C15_DefaultLayoutExists ==
    defaultLayout # NoLayout => defaultLayout \in layouts

\* C16: the login page asks for / only on a token /status accepts (or a
\* login that succeeded), the main page asks for /login only without a
\* token or on one /status refuses (or a log out), and the browser follows
\* at most one redirect before it stays on a page.
C16_NoRedirectLoop ==
    /\ [](redirects <= 1)
    /\ [][(hrefBy' = "loginReady" /\ hrefBy # "loginReady")
             => page = "login" /\ href' = "/" /\ token = "good"]_vars
    /\ [][(hrefBy' = "OnLoad" /\ hrefBy # "OnLoad")
             => page = "main" /\ href' = "/login"
                /\ token \in {"none", "bad"}]_vars

\* C16 witness: the login page was opened with a token /status accepts,
\* the browser was redirected once, and the main page finished loading.
C16_Witness ==
    /\ redirects = 1
    /\ page = "main"
    /\ bpc = "ready"
    /\ token = "good"
    /\ href = "none"

====
